---- MODULE Spec2Model ----
(***************************************************************************)
(* A model of the Java code generator (src/generators/java.js) and of the  *)
(* timer utility (src/core/utils/timer.js).                                *)
(*                                                                         *)
(* JavaScript strings are modelled as sequences of fragments (Text): the   *)
(* separators the code splits or matches on (" ", "\n", "(", ")", ",",     *)
(* ";", ":") are fragments of their own, every other fragment is an        *)
(* opaque piece of text.  String concatenation is \o.                      *)
(***************************************************************************)
EXTENDS Integers, Sequences, FiniteSets

VARIABLES
  pc,             \* position inside workspaceToCode ("idle" between calls)
  root,           \* the root value passed to workspaceToCode
  code,           \* the local `code` of workspaceToCode / finish
  ret,            \* what the last call returned ("none" |-> nothing returned)
  thrown,         \* the error the last call threw ("" |-> none)
  log,            \* history: the steps of the current run, in order
  AppName_, Baseclass_, Interfaces_, ExtraImports_,
  imports_, classes_, globals_, definitions_, functionNames_,
  variableTypes_, blocklyTypes_, variableDB_,
  POSTFIX, EXTRAINDENT,
  stack,          \* call stack of the tree walk (blockToCode / scrub_ frames)
  graph,          \* the block graph the tree walk runs on
  hist,           \* history of the tree walk / of the requests made
  enabled,        \* Timer: whether the timer is running
  timer_,         \* Timer: the id of its timeout (0: null)
  interval_,      \* Timer: ms between ticks
  last_,          \* Timer: the time of the last start
  timeouts,       \* the timeouts pending in the timer object (window)
  now,            \* the clock
  ticking,        \* "dispatchTick" while tick_ is in the TICK listeners
  called          \* the last Timer.callOnce call and its outcome

genVars == <<AppName_, Baseclass_, Interfaces_, ExtraImports_, imports_,
             classes_, globals_, definitions_, functionNames_,
             variableTypes_, blocklyTypes_, variableDB_>>
runVars == <<pc, root, code, ret, thrown, log>>
walkVars == <<POSTFIX, EXTRAINDENT, stack, graph, hist>>
timerVars == <<enabled, timer_, interval_, last_, timeouts, now, ticking, called>>
vars == <<runVars, genVars, walkVars, timerVars>>

----------------------------------------------------------------------------
(* Bounds of the model *)

\* number of blocks of a workspace that carry an onchange handler
MaxBlocks == 1
\* number of requests (addImport, toStringCode, ...) made in one scenario
MaxCalls == 3
\* number of blocks of a block graph
MaxChain == 3

\* the most inputs a block has
MaxInputs == 2

\* the most tokens of a colon-delimited type
MaxDepth == 3

\* the last instant of the clock
MaxTime == 6

\* the most callOnce timeouts pending at a time
MaxOnce == 1

----------------------------------------------------------------------------
(* Text helpers *)

NL == "\n"
SP == " "

Range(s) == {s[i] : i \in 1..Len(s)}

Contains(s, x) == \E i \in 1..Len(s) : s[i] = x

RECURSIVE Concat(_)
Concat(ss) == IF ss = <<>> THEN <<>> ELSE Head(ss) \o Concat(Tail(ss))

\* Array.prototype.join
RECURSIVE Join(_, _)
Join(ss, sep) ==
  IF ss = <<>> THEN <<>>
  ELSE IF Len(ss) = 1 THEN ss[1]
  ELSE ss[1] \o sep \o Join(Tail(ss), sep)

\* the indices of the fragments of text that satisfy Test, ascending
Indices(text, Test(_)) ==
  SelectSeq([i \in 1..Len(text) |-> i], LAMBDA i : Test(text[i]))

\* String.prototype.split(sep): the pieces between the fragments equal to sep
Split(text, sep) ==
  LET at == Indices(text, LAMBDA f : f = sep)
  IN  [k \in 1..(Len(at) + 1) |->
         SubSeq(text,
                IF k = 1 THEN 1 ELSE at[k - 1] + 1,
                IF k = Len(at) + 1 THEN Len(text) ELSE at[k] - 1)]

\* String.prototype.split(sep, limit)
SplitLimit(text, sep, limit) ==
  LET all == Split(text, sep)
  IN  IF Len(all) <= limit THEN all ELSE SubSeq(all, 1, limit)

IsSpace(f) == f = SP \/ f = NL

\* String.prototype.trim
Trim(t) ==
  LET at == Indices(t, LAMBDA f : ~IsSpace(f))
  IN  IF at = <<>> THEN <<>> ELSE SubSeq(t, at[1], at[Len(at)])

\* Insertion sort of <<rank, item>> pairs by ascending rank; an item goes
\* after the items of equal rank already placed
RECURSIVE InsertSorted(_, _)
InsertSorted(s, p) ==
  IF s = <<>> THEN <<p>>
  ELSE IF p[1] < Head(s)[1] THEN <<p>> \o s
  ELSE <<Head(s)>> \o InsertSorted(Tail(s), p)

RECURSIVE SortPairs(_)
SortPairs(s) ==
  IF s = <<>> THEN <<>>
  ELSE InsertSorted(SortPairs(SubSeq(s, 1, Len(s) - 1)), s[Len(s)])

\* Array.prototype.sort / goog.array.sort with the default comparison, the
\* string order being given by Rank
SortBy(s, Rank(_)) ==
  LET sorted == SortPairs([i \in 1..Len(s) |-> <<Rank(s[i]), s[i]>>])
  IN  [i \in 1..Len(s) |-> sorted[i][2]]

\* The position of x in the sequence s (0 when absent)
IndexOf(s, x) ==
  IF Contains(s, x) THEN CHOOSE i \in 1..Len(s) : s[i] = x /\ \A j \in 1..(i-1) : s[j] # x
  ELSE 0

----------------------------------------------------------------------------
(* JavaScript objects used as dictionaries: the keys in insertion order    *)
(* (the order for-in enumerates them) and the value of each key.           *)

EmptyDict == [keys |-> <<>>, val |-> <<>>]

Has(d, k) == Contains(d.keys, k)

Get(d, k) == d.val[IndexOf(d.keys, k)]

Put(d, k, v) ==
  IF Has(d, k) THEN [d EXCEPT !.val[IndexOf(d.keys, k)] = v]
  ELSE [keys |-> Append(d.keys, k), val |-> Append(d.val, v)]

----------------------------------------------------------------------------
(* String order.  JavaScript compares strings by code units; the model     *)
(* keeps strings opaque, so each universe of strings that the code sorts   *)
(* is listed here in that order.                                           *)

\* logical names of helper definitions ('Z' < 'a' < 'b' < 'v')
DefNameOrder == <<"Zeta", "apple", "blocklyToString", "variables">>

DefNames == Range(DefNameOrder)

DefNameRank(n) == IndexOf(DefNameOrder, n)

\* libraries, in the order of their import statements 'import <lib>;'
\* ('.' < ';', so 'import java.util.Map.Entry;' < 'import java.util.Map;')
ImportOrder ==
  << "com.google.appinventor.components.annotations.DesignerComponent",
     "com.google.appinventor.components.annotations.SimpleObject",
     "com.google.appinventor.components.common.ComponentCategory",
     "com.google.appinventor.components.runtime.AndroidNonvisibleComponent",
     "com.google.appinventor.components.runtime.ComponentContainer",
     "java.text.DecimalFormat",
     "java.text.NumberFormat",
     "java.util.Map.Entry",
     "java.util.Map" >>

\* the libraries a caller or a block generator may ask for
UserLibs == {"java.util.Map", "java.util.Map.Entry", "java.text.NumberFormat"}

ImportStr(importlib) == <<"import ", importlib, ";">>

ImportRank(importStr) == IndexOf(ImportOrder, importStr[2])

----------------------------------------------------------------------------
(* Type mapping: Blockly.Java.typeMapping, subtypeMapping, mapType         *)

typeMapping ==
  [Object |-> "Object", Array |-> "YailList", Map |-> "HashMap",
   Boolean |-> "boolean", String |-> "String", Colour |-> "String",
   Number |-> "double"]

subtypeMapping ==
  [Object |-> "Object", Array |-> "YailList", Map |-> "HashMap",
   Boolean |-> "boolean", String |-> "String", Colour |-> "String",
   Number |-> "Double"]

\* Blockly.Blocks[type].GBPClass of the block classes known to the editor
GBPClass == [widget |-> "Widget"]

\* the keys of Blockly.VariableTypeEquivalence ('Colour' is added by init)
VariableTypeEquivalence == {"Var", "Colour"}

\* the tables are object literals: a key they do not hold is looked up in
\* Object.prototype, whose members are functions
ObjectPrototype == {"constructor", "toString", "valueOf", "hasOwnProperty"}

NativeFunction == "function () { [native code] }"

\* mapping[key] for a piece of a split type: undefined ("") unless the piece
\* is exactly one fragment that is a key of the table
Lookup(mapping, piece) ==
  IF Len(piece) = 1 /\ piece[1] \in DOMAIN mapping THEN mapping[piece[1]]
  ELSE IF Len(piece) = 1 /\ piece[1] \in ObjectPrototype THEN NativeFunction
  ELSE ""

\* a mapType_ that maps the inner types with the table it was given
RECURSIVE mapType_sameTable(_, _)
mapType_sameTable(mapping, typeArray) ==
  LET arr  == IF typeArray = <<>> THEN << <<"Object">> >> ELSE typeArray
      type == IF Lookup(mapping, Head(arr)) # "" THEN <<Lookup(mapping, Head(arr))>>
              ELSE <<"Object">>
  IN  IF Len(arr) > 1
        THEN type \o <<"<">> \o mapType_sameTable(mapping, Tail(arr)) \o <<">">>
        ELSE type

RECURSIVE mapType_(_, _)
mapType_(mapping, typeArray) ==
  LET arr  == IF typeArray = <<>> THEN << <<"Object">> >> ELSE typeArray
      key  == Head(arr)
      rest == Tail(arr)
      type == IF Lookup(mapping, key) # "" THEN <<Lookup(mapping, key)>>
              ELSE IF Lookup(GBPClass, key) # "" THEN <<Lookup(GBPClass, key)>>
              ELSE IF Len(key) = 1 /\ key[1] \in VariableTypeEquivalence THEN key
              ELSE <<"Object">>
  IN  IF Len(rest) > 0
        THEN type \o <<"<">> \o mapType_(subtypeMapping, rest) \o <<">">>
        ELSE type

\* a null, undefined or empty type is the empty Text
mapType(type) ==
  mapType_(typeMapping, IF type # <<>> THEN Split(type, ":") ELSE <<>>)

\* variableTypes_ is an object literal too
GetVariableType(vtypes, name) ==
  IF Has(vtypes, name) /\ Get(vtypes, name) # <<>> THEN Get(vtypes, name)
  ELSE IF ~Has(vtypes, name) /\ name \in ObjectPrototype THEN <<NativeFunction>>
  ELSE <<"Object">>

----------------------------------------------------------------------------
(* Name Registry (Blockly.Names), as the generator uses it                 *)

ReservedWords == {"class", "double", "int", "static", "equal"}

Suffixes == <<"", "2", "3", "4", "5">>

\* db: (name, type) -> emitted name; used: every emitted name issued so far
NoNames == [created |-> FALSE, db |-> EmptyDict, used |-> {}]

\* new Blockly.Names(...) / variableDB_.reset()
Names_reset == [created |-> TRUE, db |-> EmptyDict, used |-> {}]

WithSuffix(name, i) == IF Suffixes[i] = "" THEN <<name>> ELSE <<name, Suffixes[i]>>

Names_getDistinctName(names, name) ==
  LET free(i) == /\ WithSuffix(name, i) \notin names.used
                 /\ ~(i = 1 /\ name \in ReservedWords)
      i == CHOOSE k \in 1..Len(Suffixes) :
             free(k) /\ \A j \in 1..(k-1) : ~free(j)
  IN  WithSuffix(name, i)

Names_afterDistinctName(names, name) ==
  [names EXCEPT !.used = @ \cup {Names_getDistinctName(names, name)}]

Names_getName(names, name, type) ==
  IF Has(names.db, <<name, type>>) THEN Get(names.db, <<name, type>>)
  ELSE Names_getDistinctName(names, name)

Names_afterGetName(names, name, type) ==
  IF Has(names.db, <<name, type>>) THEN names
  ELSE [Names_afterDistinctName(names, name)
          EXCEPT !.db = Put(names.db, <<name, type>>,
                            Names_getDistinctName(names, name))]

----------------------------------------------------------------------------
(* Imports: addImport, getImports                                          *)

addImport(imports, importlib) ==
  Put(imports, ImportStr(importlib), ImportStr(importlib))

RECURSIVE addImports(_, _)
addImports(imports, libs) ==
  IF libs = <<>> THEN imports
  ELSE addImports(addImport(imports, Head(libs)), Tail(libs))

\* imports_ after getImports: the extra imports have been added
getImports_imports(imports, extraImports) == addImports(imports, extraImports)

\* a getImports that forgets to sort
getImports_unsorted(imports, extraImports) ==
  Join(getImports_imports(imports, extraImports).val, <<NL>>)

\* the string getImports returns
getImports(imports, extraImports) ==
  LET keys == SortBy(getImports_imports(imports, extraImports).val, ImportRank)
  IN  Join(keys, <<NL>>)

----------------------------------------------------------------------------
(* Helper definitions: provideFunction_, and the text finish builds        *)

\* a definition is the text of a function, or a function that returns it
TextDef(text) == [fn |-> FALSE, text |-> text]
FuncDef(text) == [fn |-> TRUE, text |-> text]

\* Blockly.Generator.prototype.provideFunction_: the function name it returns
provideFunction_name(defs, fnames, names, desiredName) ==
  IF Has(defs, desiredName) THEN Get(fnames, desiredName)
  ELSE Names_getDistinctName(names, desiredName)

\* definitions_, functionNames_ and variableDB_ after provideFunction_
provideFunction_defs(defs, desiredName, codeText) ==
  IF Has(defs, desiredName) THEN defs ELSE Put(defs, desiredName, TextDef(codeText))

provideFunction_fnames(defs, fnames, names, desiredName) ==
  IF Has(defs, desiredName) THEN fnames
  ELSE Put(fnames, desiredName, Names_getDistinctName(names, desiredName))

provideFunction_names(defs, names, desiredName) ==
  IF Has(defs, desiredName) THEN names
  ELSE Names_afterDistinctName(names, desiredName)

\* a slotOf that looks at the first two words only
slotOf_firstTwoWords(def) ==
  IF ~def.fn /\ Contains(SplitLimit(def.text, SP, 2), <<"static">>) THEN 0 ELSE 1

\* slot 0: the definition is text and 'static' is one of its first three
\* space-separated words; slot 1: anything else
slotOf(def) ==
  IF ~def.fn /\ Contains(SplitLimit(def.text, SP, 3), <<"static">>) THEN 0 ELSE 1

\* funcs[slot] after the first loop of finish, sorted
funcs(defs, slot) ==
  LET InSlot(name) == name # "variables" /\ slotOf(Get(defs, name)) = slot
  IN  SortBy(SelectSeq(defs.keys, InSlot), DefNameRank)

\* the documentation block finish puts before a definition
docHeader(def) ==
  LET res1 == SplitLimit(def, "(", 2)
  IN  IF Len(res1) >= 2 /\ ~Contains(res1[1], ";")
      THEN LET words   == Split(res1[1], SP)
               rettype == IF Len(words) >= 2 THEN words[Len(words) - 1]
                          ELSE <<"undefined">>
               res     == Trim(SplitLimit(res1[2], ")", 1)[1])
               args    == IF res # <<>> THEN Split(res, ",") ELSE <<>>
               last(a) == LET w == Split(a, SP) IN w[Len(w)]
               params  == Concat([i \in 1..Len(args) |->
                            (IF i = 1 THEN <<" *", NL>> ELSE <<>>)
                            \o <<" * @param ">> \o last(args[i]) \o <<NL>>])
               retline == IF rettype # <<"void">> /\ rettype # <<"public">>
                          THEN (IF args = <<>> THEN <<" *", NL>> ELSE <<>>)
                               \o <<" * @return ">> \o rettype \o <<NL>>
                          ELSE <<>>
           IN  <<"  /**", NL, " * Description goes here", NL>>
               \o params \o retline \o <<" */", NL>>
      ELSE <<>>

\* one definition as finish emits it
emitDef(defs, name) ==
  LET def == Get(defs, name).text
  IN  docHeader(def) \o def \o <<NL, NL>>

emitSlot(defs, slot) ==
  LET names == funcs(defs, slot)
  IN  Concat([pos \in 1..Len(names) |-> emitDef(defs, names[pos])])

\* a JavaScript value that may be null: nul, or the string s
Null == [nul |-> TRUE, s |-> <<>>]
Str(s) == [nul |-> FALSE, s |-> s]

\* the field declaration of one global
fieldDecl(def, globals, vtypes, names) ==
  LET val  == Get(globals, def)
      type == GetVariableType(vtypes, def)
      initializer ==
        IF ~val.nul /\ val.s # <<>> THEN <<" = ">> \o val.s
        ELSE IF type = <<"Var">> THEN <<" = new Var()">>
        ELSE IF type = <<"Boolean">> THEN <<" = false">>
        ELSE IF type = <<"String">> THEN <<" = \"\"">>
        ELSE <<>>
      varname == Names_getName(names, def, "VARIABLE")
  IN  <<"protected", SP>> \o type \o <<SP>> \o varname \o initializer
      \o <<";", NL>>

\* the field declarations of the globals, in for-in order
RECURSIVE fieldDecls(_, _, _, _)
fieldDecls(keys, globals, vtypes, names) ==
  IF keys = <<>> THEN <<>>
  ELSE fieldDecl(Head(keys), globals, vtypes, names)
       \o fieldDecls(Tail(keys), globals, vtypes,
                     Names_afterGetName(names, Head(keys), "VARIABLE"))

\* replace(/\n\n+/g, '\n\n'): of a run of newlines the first two are kept
CollapseNL(t) ==
  LET third(i) == i >= 3 /\ t[i] = NL /\ t[i - 1] = NL /\ t[i - 2] = NL
      kept == SelectSeq([i \in 1..Len(t) |-> i], LAMBDA i : ~third(i))
  IN  [k \in 1..Len(kept) |-> t[kept[k]]]

\* replace(/\n*$/, '\n\n\n'): the trailing newlines become three
FinalNL(t) ==
  LET at == Indices(t, LAMBDA f : f # NL)
  IN  (IF at = <<>> THEN <<>> ELSE SubSeq(t, 1, at[Len(at)])) \o <<NL, NL, NL>>

\* allDefs at the end of the loops of finish
allDefs(defs, globals, vtypes, names) ==
  fieldDecls(globals.keys, globals, vtypes, names)
  \o emitSlot(defs, 0) \o emitSlot(defs, 1)

\* the string finish returns
finish(defs, globals, vtypes, names, body) ==
  FinalNL(CollapseNL(allDefs(defs, globals, vtypes, names))) \o body

----------------------------------------------------------------------------
(* Configuration and small accessors of the generator                      *)

\* Blockly.Java.needImports_
needImports_ == <<>>

setAppName(name) == IF name = "" THEN "MyApp" ELSE name

getAppName(names, appName) == Names_getName(names, appName, "CLASS")

getBaseclass(names, baseclass) ==
  IF baseclass # "" THEN Names_getName(names, baseclass, "CLASS") ELSE <<>>

getBaseclass_names(names, baseclass) ==
  IF baseclass # "" THEN Names_afterGetName(names, baseclass, "CLASS") ELSE names

\* the ' implements a, b' clause built from getInterfaces()
implementsClause(interfaces) ==
  Concat([i \in 1..Len(interfaces) |->
            <<(IF i = 1 THEN " implements " ELSE ", "), interfaces[i]>>])

getClasses(classes) ==
  LET text == Concat(classes.val)
  IN  IF text # <<>> THEN text \o <<NL, NL>> ELSE text

setExtraClass(classes, name, lines) ==
  Put(classes, name, Join(lines, <<NL>>) \o <<NL>>)

\* setGlobalVar; isLocal: Blockly.Variables.getLocalContext(block, name) != null
setGlobalVar(globals, isLocal, name, val) ==
  IF ~isLocal /\ (~Has(globals, name) \/ Get(globals, name).nul)
  THEN Put(globals, name, val)
  ELSE globals

----------------------------------------------------------------------------
(* Blockly.utils.Timer: values                                             *)

\* the intervals a Timer is given
Intervals == {1, 5}

NotCalled == [listener |-> "none", delay |-> [ms |-> 0, more |-> 0], threw |-> "", result |-> 0,
              scheduled |-> FALSE]

----------------------------------------------------------------------------
(* The roots workspaceToCode may be given                                  *)

VarNames == <<"x", "y">>

LogicalTypes == { <<>>, <<"String">>, <<"Array", ":", "Number">> }

\* a variable of a workspace: absent, or present with the type
\* allVariablesTypes gives it (the empty Text: none)
VarStatus ==
  {[present |-> FALSE, type |-> <<>>]}
  \cup {[present |-> TRUE, type |-> t] : t \in LogicalTypes}

\* kind "workspace" has getAllBlocks, kind "block" has getDescendants, kind
\* "other" has neither; hasOptions: the value has an `options` member;
\* onchange: the number of its blocks that have an onchange handler
Workspaces ==
  [kind : {"workspace"}, hasOptions : {TRUE}, appTitle : {"", "App"},
   vars : [1..Len(VarNames) -> VarStatus], onchange : 0..MaxBlocks]

NoVars == [i \in 1..Len(VarNames) |-> [present |-> FALSE, type |-> <<>>]]

OtherRoots ==
  [kind : {"other"}, hasOptions : BOOLEAN, appTitle : {"App"},
   vars : {NoVars}, onchange : {0}]

Roots == Workspaces \cup OtherRoots

NoRoot == [kind |-> "none", hasOptions |-> FALSE, appTitle |-> "",
           vars |-> NoVars, onchange |-> 0]

\* Blockly.Variables.allVariables(workspace) followed by the typed names
variablesOf(r) ==
  SelectSeq(VarNames, LAMBDA n : r.vars[IndexOf(VarNames, n)].present)

\* Blockly.Variables.allVariablesTypes(workspace)
RECURSIVE typesOf(_, _)
typesOf(r, i) ==
  IF i = 0 THEN EmptyDict
  ELSE IF r.vars[i].present /\ r.vars[i].type # <<>>
       THEN Put(typesOf(r, i - 1), VarNames[i], r.vars[i].type)
       ELSE typesOf(r, i - 1)

\* a forceUpdate that takes any root for an empty workspace
forceUpdate_neverThrows(r) == FALSE

\* forceUpdate: the root is neither a block nor a workspace
forceUpdate_throws(r) == r.kind # "block" /\ r.kind # "workspace"

\* forceUpdate: one onchange call per block that has the handler
forceUpdate_calls(r) == [i \in 1..r.onchange |-> "onchange"]

\* the loop of init that fills variableTypes_
RECURSIVE init_variableTypes(_, _, _)
init_variableTypes(vtypes, variables, btypes) ==
  IF variables = <<>> THEN vtypes
  ELSE LET key == Head(variables)
       IN  init_variableTypes(
             Put(vtypes, key,
                 mapType(IF Has(btypes, key) THEN Get(btypes, key) ELSE <<>>)),
             Tail(variables), btypes)

----------------------------------------------------------------------------
(* workspaceToCode, step by step                                           *)

\* a workspaceToCode that renders the text before it adds the imports
WorkspaceToCodeSteps_importsLast ==
  <<"forceUpdate", "workspaceToCode_", "assemble", "addImports">>

\* the statements of Blockly.Java.workspaceToCode after setAppName, in order
WorkspaceToCodeSteps == <<"forceUpdate", "workspaceToCode_", "addImports", "assemble">>

\* the steps of the inherited workspaceToCode_: init, the walk, finish
BaseSteps == <<"init", "body", "finish">>

Steps ==
  Concat([i \in 1..Len(WorkspaceToCodeSteps) |->
            IF WorkspaceToCodeSteps[i] = "workspaceToCode_" THEN BaseSteps
            ELSE <<WorkspaceToCodeSteps[i]>>])

NextStep(p) ==
  IF IndexOf(Steps, p) = Len(Steps) THEN "done" ELSE Steps[IndexOf(Steps, p) + 1]

fileHeader == <<"/* Copyright (c) ", "<<Year>>", ", ", "<<Your Name>>", " */", NL>>

InitGen ==
  /\ AppName_ = "myApp"
  /\ Baseclass_ = ""
  /\ Interfaces_ = <<>>
  /\ ExtraImports_ = <<>>
  /\ imports_ = EmptyDict
  /\ classes_ = EmptyDict
  /\ globals_ = EmptyDict
  /\ definitions_ = EmptyDict
  /\ functionNames_ = EmptyDict
  /\ variableTypes_ = EmptyDict
  /\ blocklyTypes_ = EmptyDict
  /\ variableDB_ = NoNames

InitRun ==
  /\ pc = "idle"
  /\ root = NoRoot
  /\ code = <<>>
  /\ ret = <<"none">>
  /\ thrown = ""
  /\ log = <<>>

\* a Timer just constructed, nothing pending, the clock at 0
InitTimer ==
  /\ enabled = FALSE
  /\ timer_ = 0
  /\ interval_ \in Intervals
  /\ last_ = 0
  /\ timeouts = {}
  /\ now = 0
  /\ ticking = "idle"
  /\ called = NotCalled

\* no Timer in use
NoTimer ==
  /\ enabled = FALSE
  /\ timer_ = 0
  /\ interval_ = 1
  /\ last_ = 0
  /\ timeouts = {}
  /\ now = 0
  /\ ticking = "idle"
  /\ called = NotCalled

InitWalk ==
  /\ NoTimer
  /\ POSTFIX = <<>>
  /\ EXTRAINDENT = <<>>
  /\ stack = <<>>
  /\ graph = <<>>
  /\ hist = <<>>

Init == InitGen /\ InitRun /\ InitWalk

\* setBaseclass, called by the embedding page between runs
SetBaseclass(baseclass) ==
  /\ pc = "idle"
  /\ Baseclass_ # baseclass
  /\ Baseclass_' = baseclass
  /\ UNCHANGED <<timerVars, runVars, walkVars, AppName_, Interfaces_, ExtraImports_,
                 imports_, classes_, globals_, definitions_, functionNames_,
                 variableTypes_, blocklyTypes_, variableDB_>>

\* setExtraImports, called by the embedding page between runs
SetExtraImports(extraImports) ==
  /\ pc = "idle"
  /\ ExtraImports_ # extraImports
  /\ ExtraImports_' = extraImports
  /\ UNCHANGED <<timerVars, runVars, walkVars, AppName_, Baseclass_, Interfaces_,
                 imports_, classes_, globals_, definitions_, functionNames_,
                 variableTypes_, blocklyTypes_, variableDB_>>

\* the call workspaceToCode(r) and its first statement, setAppName
WorkspaceToCode(r) ==
  /\ pc = "idle"
  /\ root' = r
  /\ log' = <<>>
  /\ code' = <<>>
  /\ ret' = <<"none">>
  /\ IF r.hasOptions
       THEN /\ AppName_' = setAppName(r.appTitle)
            /\ thrown' = ""
            /\ pc' = Steps[1]
       ELSE /\ AppName_' = AppName_
            /\ thrown' = "TypeError"
            /\ pc' = "thrown"
  /\ UNCHANGED <<timerVars, walkVars, Baseclass_, Interfaces_, ExtraImports_,
                 imports_, classes_, globals_, definitions_, functionNames_,
                 variableTypes_, blocklyTypes_, variableDB_>>

\* this.forceUpdate(workspace)
ForceUpdate ==
  /\ pc = "forceUpdate"
  /\ IF forceUpdate_throws(root)
       THEN /\ thrown' = "Not Block or Workspace"
            /\ pc' = "thrown"
            /\ log' = log
       ELSE /\ thrown' = thrown
            /\ pc' = NextStep("forceUpdate")
            /\ log' = log \o <<"settle">> \o forceUpdate_calls(root)
  /\ UNCHANGED <<timerVars, root, code, ret, genVars, walkVars>>

\* this.init(workspace), called by workspaceToCode_
InitStep ==
  /\ pc = "init"
  /\ definitions_' = EmptyDict
  /\ functionNames_' = EmptyDict
  /\ imports_' = addImports(EmptyDict, needImports_)
  /\ classes_' = EmptyDict
  /\ globals_' = EmptyDict
  /\ variableDB_' = Names_reset
  /\ blocklyTypes_' = typesOf(root, Len(VarNames))
  /\ variableTypes_' =
       init_variableTypes(variableTypes_, variablesOf(root), blocklyTypes_')
  /\ log' = log \o <<"init", IF variableDB_.created THEN "reset" ELSE "newNames">>
  /\ pc' = NextStep("init")
  /\ UNCHANGED <<timerVars, root, code, ret, thrown, walkVars, AppName_, Baseclass_,
                 Interfaces_, ExtraImports_>>

----------------------------------------------------------------------------
(* toStringCode                                                            *)

\* the text of the helper toStringCode registers, lines joined by "\n"
blocklyToStringText ==
  Join(<< <<"public", SP, "static", SP, "String", SP, "blocklyToString", "(",
            "Object", SP, "object", ")", SP, "{">>,
          <<"    String", SP, "result", ";">>,
          <<"    if", SP, "(", "object instanceof String", ")", SP, "{">>,
          <<"        result = ", "(", "String", ")", SP, "object", ";">>,
          <<"    } else {">>,
          <<"        try { ... result = formatter.format", "(", "d", ")", ";">>,
          <<>>,
          <<"        } catch ", "(", "Exception ex", ")", " { ... }">>,
          <<"    }">>,
          <<>>,
          <<"  return", SP, "result", ";">>,
          <<"}">> >>, <<NL>>)

\* a toStringCode that registers the helper under a name of the call site
toStringCode_desiredName_perItem(item) ==
  IF item = <<"a + b">> THEN "apple" ELSE "blocklyToString"

\* the logical name the helper is registered under
toStringCode_desiredName(item) == "blocklyToString"

NumberLiterals == {"42", "-3.5"}

\* Blockly.isNumber
isNumber(item) == Len(item) = 1 /\ item[1] \in NumberLiterals

\* the key of variableTypes_ a piece of code is
TextKey(item) == IF Len(item) = 1 THEN item[1] ELSE ""

\* a toStringCode that hands numbers to the helper too
toStringCode_path_noQuote(target, item0, vtypes) ==
  IF ~target.connected THEN "none"
  ELSE IF Trim(item0) = <<>> \/ Trim(item0)[1] = "\"" THEN "asis"
  ELSE IF target.type = "variables_get"
          /\ GetVariableType(vtypes, target.var) = <<"Var">> THEN "toString"
  ELSE "helper"

\* which branch toStringCode takes; target: the block connected to the
\* input, item: what valueToCode returned for it
toStringCode_path(target, item0, vtypes) ==
  LET item == Trim(item0)
  IN  IF ~target.connected THEN "none"
      ELSE IF item = <<>> \/ item[1] = "\"" THEN "asis"
      ELSE IF target.type = "variables_get"
              /\ GetVariableType(vtypes, target.var) = <<"Var">> THEN "toString"
      ELSE IF isNumber(item) THEN "quote"
      ELSE IF target.type # "variables_get"
              /\ GetVariableType(vtypes, TextKey(item)) = <<"Var">> THEN "toString"
      ELSE "helper"

\* the string toStringCode returns
toStringCode(target, item0, vtypes, defs, fnames, names) ==
  LET item == Trim(item0)
      path == toStringCode_path(target, item0, vtypes)
  IN  CASE path = "none" -> <<>>
        [] path = "asis" -> item
        [] path = "toString" -> item \o <<".toString()">>
        [] path = "quote" -> <<"\"">> \o item \o <<"\"">>
        [] path = "helper" ->
             provideFunction_name(defs, fnames, names,
                                  toStringCode_desiredName(item))
             \o <<"(">> \o item \o <<")">>

\* the generator's state after toStringCode
toStringCode_imports(target, item0, vtypes, imports) ==
  IF toStringCode_path(target, item0, vtypes) = "helper"
  THEN addImports(imports, <<"java.text.DecimalFormat", "java.text.NumberFormat">>)
  ELSE imports

toStringCode_defs(target, item0, vtypes, defs) ==
  IF toStringCode_path(target, item0, vtypes) = "helper"
  THEN provideFunction_defs(defs, toStringCode_desiredName(Trim(item0)),
                            blocklyToStringText)
  ELSE defs

toStringCode_fnames(target, item0, vtypes, defs, fnames, names) ==
  IF toStringCode_path(target, item0, vtypes) = "helper"
  THEN provideFunction_fnames(defs, fnames, names,
                              toStringCode_desiredName(Trim(item0)))
  ELSE fnames

toStringCode_names(target, item0, vtypes, defs, names) ==
  IF toStringCode_path(target, item0, vtypes) = "helper"
  THEN provideFunction_names(defs, names, toStringCode_desiredName(Trim(item0)))
  ELSE names

\* a connected block that is not a variables_get block
OtherTarget == [connected |-> TRUE, type |-> "other", var |-> ""]

----------------------------------------------------------------------------
(* workspaceToCode, continued                                              *)

\* the getName events of a list of variables
getNameEvents(names) == [i \in 1..Len(names) |-> "getName"]

RECURSIVE getNames(_, _)
getNames(names, vs) ==
  IF vs = <<>> THEN names
  ELSE getNames(Names_afterGetName(names, Head(vs), "VARIABLE"), Tail(vs))

RECURSIVE setGlobalVars(_, _)
setGlobalVars(globals, vs) ==
  IF vs = <<>> THEN globals
  ELSE setGlobalVars(setGlobalVar(globals, FALSE, Head(vs), Null), Tail(vs))

\* the loop of workspaceToCode_ over the top blocks: every variable of the
\* workspace is named and declared global by a block, and, when useHelper, one
\* block converts a value with toStringCode
Body(useHelper) ==
  LET vs     == variablesOf(root)
      names1 == getNames(variableDB_, vs)
      item   == <<"expr">>
      target == IF useHelper THEN OtherTarget
                ELSE [connected |-> FALSE, type |-> "", var |-> ""]
  IN  /\ pc = "body"
      /\ globals_' = setGlobalVars(globals_, vs)
      /\ imports_' = toStringCode_imports(target, item, variableTypes_, imports_)
      /\ definitions_' = toStringCode_defs(target, item, variableTypes_, definitions_)
      /\ functionNames_' =
           toStringCode_fnames(target, item, variableTypes_, definitions_,
                               functionNames_, names1)
      /\ variableDB_' =
           toStringCode_names(target, item, variableTypes_, definitions_, names1)
      /\ code' = Concat([i \in 1..Len(vs) |->
                           Names_getName(names1, vs[i], "VARIABLE") \o <<" = 0", ";", NL>>])
                 \o toStringCode(target, item, variableTypes_, definitions_,
                                 functionNames_, names1)
      /\ log' = log \o <<"body">> \o getNameEvents(vs)
      /\ pc' = NextStep("body")
      /\ UNCHANGED <<timerVars, root, ret, thrown, walkVars, AppName_, Baseclass_,
                     Interfaces_, ExtraImports_, classes_, variableTypes_,
                     blocklyTypes_>>

\* code = this.finish(code), called by workspaceToCode_
FinishStep ==
  /\ pc = "finish"
  /\ code' = finish(definitions_, globals_, variableTypes_, variableDB_, code)
  /\ definitions_' = EmptyDict
  /\ functionNames_' = EmptyDict
  /\ variableDB_' = Names_reset
  /\ log' = log \o <<"finish">> \o getNameEvents(globals_.keys) \o <<"reset">>
  /\ pc' = NextStep("finish")
  /\ UNCHANGED <<timerVars, root, ret, thrown, walkVars, AppName_, Baseclass_,
                 Interfaces_, ExtraImports_, imports_, classes_, globals_,
                 variableTypes_, blocklyTypes_>>

AlwaysImports ==
  << "com.google.appinventor.components.runtime.AndroidNonvisibleComponent",
     "com.google.appinventor.components.runtime.ComponentContainer",
     "com.google.appinventor.components.annotations.SimpleObject",
     "com.google.appinventor.components.annotations.DesignerComponent",
     "com.google.appinventor.components.common.ComponentCategory" >>

\* the five addImport calls and setBaseclass("AndroidNonvisibleComponent")
AddImportsStep ==
  /\ pc = "addImports"
  /\ imports_' = addImports(imports_, AlwaysImports)
  /\ Baseclass_' = "AndroidNonvisibleComponent"
  /\ log' = log \o <<"alwaysImports">>
  /\ pc' = NextStep("addImports")
  /\ UNCHANGED <<timerVars, root, code, ret, thrown, walkVars, AppName_, Interfaces_,
                 ExtraImports_, classes_, globals_, definitions_,
                 functionNames_, variableTypes_, blocklyTypes_, variableDB_>>

\* the text workspaceToCode assembles and returns
finalcode(imports, extraImports, names, appName, baseclass, interfaces, classes, body) ==
  LET names1 == Names_afterGetName(names, appName, "CLASS")
  IN  fileHeader
      \o <<"package ", "demo", ";", NL, NL>>
      \o getImports(imports, extraImports) \o <<NL>>
      \o <<"@SimpleObject(external=true)", NL, "@DesignerComponent(...)", NL>>
      \o <<"public class ">> \o getAppName(names, appName)
      \o (IF getBaseclass(names1, baseclass) # <<>>
          THEN <<" extends ">> \o getBaseclass(names1, baseclass) ELSE <<>>)
      \o implementsClause(interfaces)
      \o <<" {", NL, NL, "public ">>
      \o getAppName(getBaseclass_names(names1, baseclass), appName)
      \o <<"(ComponentContainer container) {", NL,
           "  super(container.$form());", NL, "}", NL>>
      \o body \o <<NL, "}", NL, NL>>
      \o getClasses(classes)

\* the rest of workspaceToCode: the text is built and returned
AssembleStep ==
  /\ pc = "assemble"
  /\ ret' = finalcode(imports_, ExtraImports_, variableDB_, AppName_,
                      Baseclass_, Interfaces_, classes_, code)
  /\ imports_' = getImports_imports(imports_, ExtraImports_)
  /\ variableDB_' =
       getBaseclass_names(Names_afterGetName(variableDB_, AppName_, "CLASS"),
                          Baseclass_)
  /\ log' = log \o <<"renderImports", "getName">>
            \o (IF Baseclass_ # "" THEN <<"getName">> ELSE <<>>) \o <<"getName">>
  /\ pc' = NextStep("assemble")
  /\ UNCHANGED <<timerVars, root, code, thrown, walkVars, AppName_, Baseclass_,
                 Interfaces_, ExtraImports_, classes_, globals_, definitions_,
                 functionNames_, variableTypes_, blocklyTypes_>>

\* the call has returned or thrown; the page may call again
Return ==
  /\ pc \in {"done", "thrown"}
  /\ pc' = "idle"
  /\ root' = NoRoot
  /\ code' = <<>>
  /\ ret' = <<"none">>
  /\ thrown' = ""
  /\ log' = <<>>
  /\ UNCHANGED <<timerVars, genVars, walkVars>>

Next ==
  \/ \E b \in {"", "Base"} : SetBaseclass(b)
  \/ \E e \in {<<>>, <<"java.util.Map">>} : SetExtraImports(e)
  \/ \E r \in Roots : WorkspaceToCode(r)
  \/ ForceUpdate
  \/ InitStep
  \/ \E h \in BOOLEAN : Body(h)
  \/ FinishStep
  \/ AddImportsStep
  \/ AssembleStep
  \/ Return

Spec == Init /\ [][Next]_vars

----------------------------------------------------------------------------
(* Claims about a generation run (specification Spec)                      *)

\* the positions of an event in the log of the current run
LogAt(e) == Indices(log, LAMBDA x : x = e)

\* C1: workspaceToCode on a root that is neither a block nor a workspace ends
\* in a thrown error: the call never gets past forceUpdate, and nothing is
\* returned.
C1_FatalPath ==
  root.kind = "other" =>
    /\ ret = <<"none">>
    /\ code = <<>>
    /\ pc \in {"forceUpdate", "thrown"}
    /\ pc = "thrown" => thrown # ""
    /\ pc = "forceUpdate" => root.hasOptions

\* C1 witness: a root with options but neither getDescendants nor
\* getAllBlocks has made forceUpdate throw
C1_Witness ==
  /\ root.kind = "other" /\ root.hasOptions
  /\ pc = "thrown" /\ thrown = "Not Block or Workspace"

\* C2 (as claimed): once init has run, the variable-type table holds nothing
\* of an earlier run: every name that is no variable of this run's workspace
\* has the fallback type 'Object'.
C2_NoTypeFromEarlierRun ==
  pc \in {"body", "finish", "addImports", "assemble", "done"} =>
    \A i \in 1..Len(VarNames) :
      ~root.vars[i].present =>
        GetVariableType(variableTypes_, VarNames[i]) = <<"Object">>

\* the order the claim gives: init, settle pass, body, imports, rendering
ClaimedRank(e) ==
  CASE e = "init" -> 1
    [] e \in {"settle", "onchange"} -> 2
    [] e = "body" -> 3
    [] e = "alwaysImports" -> 4
    [] e = "renderImports" -> 5
    [] OTHER -> 0

\* the order of the code: settle pass, init, body, imports, rendering
CodeRank(e) ==
  CASE e \in {"settle", "onchange"} -> 1
    [] e = "init" -> 2
    [] e = "body" -> 3
    [] e = "alwaysImports" -> 4
    [] e = "renderImports" -> 5
    [] OTHER -> 0

InOrder(Rank(_)) ==
  \A i, j \in 1..Len(log) :
    (i < j /\ Rank(log[i]) # 0 /\ Rank(log[j]) # 0) => Rank(log[i]) <= Rank(log[j])

\* the five steps have all happened, each once, and onchange was called on
\* every block that has the handler
AllSteps ==
  /\ \A e \in {"settle", "init", "body", "alwaysImports", "renderImports"} :
       Len(LogAt(e)) = 1
  /\ Len(LogAt("onchange")) = root.onchange

\* C3 (as claimed): init comes first, then the settle pass, then the body,
\* then the always-required imports, then the rendering of the import list.
C3_InitThenSettle == InOrder(ClaimedRank) /\ (pc = "done" => AllSteps)

\* C3 (amended): the settle pass comes first and calls onchange on every
\* block, then init, then the body, then the always-required imports, and
\* only then is the import list rendered.
C3_SettleThenInit == InOrder(CodeRank) /\ (pc = "done" => AllSteps)

\* C3 witness: a run with a block that has an onchange handler has returned
C3_Witness == pc = "done" /\ root.onchange >= 1 /\ Len(LogAt("onchange")) >= 1

\* C4 (as claimed): the Name Registry is reset once in a run, at its start,
\* and every getName of the run comes after that reset and before any other.
C4_ResetOnce ==
  LET resets == Indices(log, LAMBDA x : x \in {"reset", "newNames"})
  IN  /\ Len(resets) <= 1
      /\ \A i \in 1..Len(log) :
           log[i] = "getName" => (Len(resets) = 1 /\ resets[1] < i)

----------------------------------------------------------------------------
(* Imports requested during one run (specification SpecImports): the       *)
(* generator has been initialised, blocks and the assembler call addImport *)
(* in any order, and getImports renders the list.                          *)

ExtraImportsChoices ==
  { <<>>, <<"java.util.Map">>, <<"java.util.Map.Entry", "java.text.NumberFormat">> }

ImportLibs ==
  UserLibs \cup {"com.google.appinventor.components.runtime.ComponentContainer"}

\* the generator after init, inside a run
InitEmit ==
  /\ AppName_ = "myApp"
  /\ Baseclass_ = ""
  /\ Interfaces_ = <<>>
  /\ imports_ = addImports(EmptyDict, needImports_)
  /\ classes_ = EmptyDict
  /\ globals_ = EmptyDict
  /\ definitions_ = EmptyDict
  /\ functionNames_ = EmptyDict
  /\ variableDB_ = Names_reset
  /\ pc = "emit"
  /\ root = NoRoot
  /\ code = <<>>
  /\ ret = <<"none">>
  /\ thrown = ""
  /\ log = <<>>

InitImports ==
  /\ InitEmit /\ InitWalk
  /\ ExtraImports_ \in ExtraImportsChoices
  /\ variableTypes_ = EmptyDict
  /\ blocklyTypes_ = EmptyDict

\* addImport(importlib)
AddImport(importlib) ==
  /\ pc = "emit"
  /\ Len(hist) < MaxCalls
  /\ imports_' = addImport(imports_, importlib)
  /\ hist' = Append(hist, importlib)
  /\ ret' = <<"none">>
  /\ UNCHANGED <<timerVars, pc, root, code, thrown, log, AppName_, Baseclass_,
                 Interfaces_, ExtraImports_, classes_, globals_, definitions_,
                 functionNames_, variableTypes_, blocklyTypes_, variableDB_,
                 POSTFIX, EXTRAINDENT, stack, graph>>

\* getImports()
GetImports ==
  /\ pc = "emit"
  /\ ret' = getImports(imports_, ExtraImports_)
  /\ imports_' = getImports_imports(imports_, ExtraImports_)
  /\ UNCHANGED <<timerVars, pc, root, code, thrown, log, AppName_, Baseclass_,
                 Interfaces_, ExtraImports_, classes_, globals_, definitions_,
                 functionNames_, variableTypes_, blocklyTypes_, variableDB_,
                 walkVars>>

NextImports ==
  \/ \E lib \in ImportLibs : AddImport(lib)
  \/ GetImports

SpecImports == InitImports /\ [][NextImports]_vars

\* C5: whatever the order and the repetitions of the addImport calls,
\* getImports returns the import statements of exactly the libraries added
\* and the configured extra imports, one line each, in ascending string
\* order and without duplicates (so equal sets give equal results, and a
\* second addImport of a library changes nothing).
C5_ImportsSortedDistinct ==
  ret # <<"none">> =>
    LET want  == {ImportStr(l) : l \in Range(hist) \cup Range(ExtraImports_)}
        lines == IF ret = <<>> THEN <<>> ELSE Split(ret, NL)
    IN  /\ Range(lines) = want
        /\ \A i, j \in 1..Len(lines) :
             i < j => ImportRank(lines[i]) < ImportRank(lines[j])

\* C5 witness: getImports has answered after a library was added twice, out
\* of order, with extra imports configured
C5_Witness ==
  /\ ret # <<"none">>
  /\ Len(hist) = 3 /\ hist[1] = hist[3]
  /\ ImportRank(ImportStr(hist[1])) > ImportRank(ImportStr(hist[2]))
  /\ ExtraImports_ # <<>>

----------------------------------------------------------------------------
(* Helper definitions collected during one run (specification SpecHelpers) *)
(* and the text finish makes of them.                                      *)

\* the texts a block generator may store in definitions_ under a name: with
\* 'static' as second, third or fourth word, 'static' after a line break, or
\* no 'static' at all
DefKinds == {"static2", "static3", "static4", "staticNL", "instance"}

DefText(kind, name) ==
  (CASE kind = "static2" -> <<"public", SP, "static", SP, "void", SP>>
     [] kind = "static3" -> <<"public", SP, "final", SP, "static", SP, "void", SP>>
     [] kind = "static4" -> <<"public", SP, "final", SP, "synchronized", SP,
                              "static", SP, "void", SP>>
     [] kind = "staticNL" -> <<"@Keep", NL, "static", SP, "void", SP>>
     [] kind = "instance" -> <<"public", SP, "int", SP>>)
  \o <<name, "(", "int", SP, "n", ")", SP, "{ }">>

\* the reserved key 'variables' holds the variable declarations
DefChoices(name) ==
  IF name = "variables" THEN {TextDef(DefText("static2", name))}
  ELSE {TextDef(DefText(k, name)) : k \in DefKinds}
       \cup {FuncDef(DefText("static2", name))}

\* the blocks toStringCode may find connected, and the code of each
Targets ==
  { [connected |-> FALSE, type |-> "", var |-> ""],
    OtherTarget,
    [connected |-> TRUE, type |-> "variables_get", var |-> "v"] }

Items == { <<"a + b">>, <<"f()">>, <<"42">> }

NoDefs == EmptyDict

Call(op, name, text, defs) == [op |-> op, name |-> name, text |-> text, defs |-> defs]

InitHelpers ==
  /\ InitEmit /\ InitWalk
  /\ ExtraImports_ = <<>>
  /\ variableTypes_ \in {EmptyDict, Put(EmptyDict, "v", <<"Var">>)}
  /\ blocklyTypes_ = EmptyDict

\* a variable block asks the registry for a name
GetName(name) ==
  /\ pc = "emit"
  /\ ~Has(variableDB_.db, <<name, "VARIABLE">>)
  /\ variableDB_' = Names_afterGetName(variableDB_, name, "VARIABLE")
  /\ UNCHANGED <<timerVars, runVars, walkVars, AppName_, Baseclass_, Interfaces_,
                 ExtraImports_, imports_, classes_, globals_, definitions_,
                 functionNames_, variableTypes_, blocklyTypes_>>

\* a block generator calls toStringCode(block, name)
ToStringCode(target, item) ==
  LET path == toStringCode_path(target, item, variableTypes_)
  IN  /\ pc = "emit"
      /\ Len(hist) < MaxCalls
      /\ hist' = Append(hist,
           Call(path,
                IF path = "helper"
                THEN provideFunction_name(definitions_, functionNames_, variableDB_,
                                          toStringCode_desiredName(Trim(item)))
                ELSE <<>>,
                toStringCode(target, item, variableTypes_, definitions_,
                             functionNames_, variableDB_),
                NoDefs))
      /\ imports_' = toStringCode_imports(target, item, variableTypes_, imports_)
      /\ definitions_' = toStringCode_defs(target, item, variableTypes_, definitions_)
      /\ functionNames_' =
           toStringCode_fnames(target, item, variableTypes_, definitions_,
                               functionNames_, variableDB_)
      /\ variableDB_' =
           toStringCode_names(target, item, variableTypes_, definitions_, variableDB_)
      /\ UNCHANGED <<timerVars, runVars, POSTFIX, EXTRAINDENT, stack, graph, AppName_,
                     Baseclass_, Interfaces_, ExtraImports_, classes_, globals_,
                     variableTypes_, blocklyTypes_>>

\* a block generator stores a definition: Blockly.Java.definitions_[name] = def
Define(name, def) ==
  /\ pc = "emit"
  /\ Len(hist) < MaxCalls
  /\ ~Has(definitions_, name)
  /\ definitions_' = Put(definitions_, name, def)
  /\ hist' = Append(hist, Call("define", <<name>>, <<>>, NoDefs))
  /\ UNCHANGED <<timerVars, runVars, POSTFIX, EXTRAINDENT, stack, graph, AppName_,
                 Baseclass_, Interfaces_, ExtraImports_, imports_, classes_,
                 globals_, functionNames_, variableTypes_, blocklyTypes_,
                 variableDB_>>

\* finish(code) at the end of the walk
Finish ==
  /\ pc = "emit"
  /\ code' = finish(definitions_, globals_, variableTypes_, variableDB_, <<"body", NL>>)
  /\ hist' = Append(hist, Call("finish", <<>>, <<>>, definitions_))
  /\ definitions_' = EmptyDict
  /\ functionNames_' = EmptyDict
  /\ variableDB_' = Names_reset
  /\ pc' = "finished"
  /\ UNCHANGED <<timerVars, root, ret, thrown, log, POSTFIX, EXTRAINDENT, stack, graph,
                 AppName_, Baseclass_, Interfaces_, ExtraImports_, imports_,
                 classes_, globals_, variableTypes_, blocklyTypes_>>

NextHelpers ==
  \/ GetName("blocklyToString")
  \/ \E target \in Targets, item \in Items : ToStringCode(target, item)
  \/ \E name \in {"Zeta", "apple", "variables"} :
       \E def \in DefChoices(name) : Define(name, def)
  \/ Finish

SpecHelpers == InitHelpers /\ [][NextHelpers]_vars

\* the first position at which sub occurs in text (0: nowhere)
Occurrences(text, sub) ==
  {i \in 1..(Len(text) - Len(sub) + 1) : SubSeq(text, i, i + Len(sub) - 1) = sub}

Pos(text, sub) ==
  IF Occurrences(text, sub) = {} THEN 0
  ELSE CHOOSE i \in Occurrences(text, sub) : \A j \in Occurrences(text, sub) : i <= j

HelperCalls == Indices(hist, LAMBDA c : c.op = "helper")

\* the declaration line of the helper, up to its opening brace
HelperSignature == Split(blocklyToStringText, NL)[1]

\* C6: all call sites of a run that take the runtime-conversion path get the
\* same function name, and the text of finish holds the definition of the
\* blocklyToString helper exactly once.
C6_OneHelper ==
  /\ \A i, j \in Range(HelperCalls) : hist[i].name = hist[j].name
  /\ (pc = "finished" /\ HelperCalls # <<>>) =>
       /\ Cardinality(Occurrences(code, HelperSignature)) = 1
       /\ Cardinality(Occurrences(code, blocklyToStringText)) = 1

\* C6 witness: finish has run after two conversions of different code
\* through the helper
C6_Witness ==
  /\ pc = "finished" /\ Len(HelperCalls) >= 2
  /\ hist[HelperCalls[1]].text # hist[HelperCalls[2]].text

\* the definitions finish was given, and the helpers among them it emits
FinishedDefs == hist[Len(hist)].defs

Emitted == {n \in Range(FinishedDefs.keys) : n # "variables"}

TextOf(n) == Get(FinishedDefs, n).text

\* the declaration text contains the token 'static'
HasStaticToken(n) == Contains(TextOf(n), "static")

\* the definition is stored as text and 'static' is one of the first three
\* space-separated words of that text
StaticInHead(n) ==
  LET words == Split(TextOf(n), SP)
  IN  /\ ~Get(FinishedDefs, n).fn
      /\ \E k \in 1..3 : k <= Len(words) /\ words[k] = <<"static">>

\* helpers of the first group come before those of the second, and each
\* group is in ascending order of logical name
Partitioned(First(_)) ==
  pc = "finished" =>
    /\ \A n \in Emitted : Pos(code, TextOf(n)) > 0
    /\ \A a, b \in Emitted :
         (First(a) /\ ~First(b)) => Pos(code, TextOf(a)) < Pos(code, TextOf(b))
    /\ \A a, b \in Emitted :
         ((First(a) <=> First(b)) /\ DefNameRank(a) < DefNameRank(b))
           => Pos(code, TextOf(a)) < Pos(code, TextOf(b))

----------------------------------------------------------------------------
(* The walk over a chain of statement blocks (specification SpecWalk):     *)
(* blockToCode runs the block's generator, which may call valueToCode on a *)
(* value input, and hands the generator's code to scrub_; scrub_ reads and *)
(* clears the staged modifiers and calls blockToCode on the next block.    *)
(* The stack holds one frame per blockToCode call in progress.             *)

\* what the generator of a statement block of the chain does
BlockKinds == {"empty", "plain", "commented", "withValue", "commentedValue"}

StmtMark == <<"s1", "s2", "s3", "s4", "s5", "s6">>
ValueMark == <<"v1", "v2", "v3", "v4", "v5", "v6">>
CommentMark == <<"about s1", "about s2", "about s3", "about s4", "about s5", "about s6">>
ValueCommentMark ==
  <<"about v1", "about v2", "about v3", "about v4", "about v5", "about v6">>

\* the chains: statement block i is i, the block on its value input is -i
Chains == UNION {[1..n -> BlockKinds] : n \in 1..MaxChain}

kindOf(chain, b) == IF b > 0 THEN chain[b] ELSE "value"

hasValueInput(chain, b) == kindOf(chain, b) \in {"withValue", "commentedValue"}

\* block.nextConnection && block.nextConnection.targetBlock(); 0: none
nextBlock(chain, b) == IF b > 0 /\ b < Len(chain) THEN b + 1 ELSE 0

\* the code the generator of block b returns, given what valueToCode gave it
ownCode(chain, b, value) ==
  CASE kindOf(chain, b) = "value" -> <<ValueMark[-b]>>
    [] kindOf(chain, b) = "empty" -> <<>>
    [] kindOf(chain, b) \in {"plain", "commented"} -> <<StmtMark[b], ";", NL>>
    [] OTHER -> <<StmtMark[b], "(">> \o value \o <<")", ";", NL>>

\* prefixLines(text, prefix): the prefix in front of the text and after
\* every line break but a final one
RECURSIVE prefixLines_(_, _, _)
prefixLines_(text, prefix, i) ==
  IF i > Len(text) THEN <<>>
  ELSE IF text[i] = NL /\ i < Len(text)
       THEN <<NL>> \o prefix \o prefixLines_(text, prefix, i + 1)
       ELSE <<text[i]>> \o prefixLines_(text, prefix, i + 1)

prefixLines(text, prefix) == prefix \o prefixLines_(text, prefix, 1)

\* the comment text of block b, and the nested comments of its value input
getCommentText(chain, b) ==
  IF kindOf(chain, b) \in {"commented", "commentedValue"}
  THEN <<CommentMark[b]>> ELSE <<>>

allNestedComments(chain, b) ==
  IF kindOf(chain, b) = "commentedValue" THEN <<ValueCommentMark[b], NL>> ELSE <<>>

\* scrub_, the comments in front of the code
scrub_commentCode(chain, b) ==
  IF b < 0 THEN <<>>
  ELSE (IF getCommentText(chain, b) # <<>>
        THEN prefixLines(getCommentText(chain, b), <<"// ">>) \o <<NL>>
        ELSE <<>>)
       \o (IF hasValueInput(chain, b) /\ allNestedComments(chain, b) # <<>>
           THEN prefixLines(allNestedComments(chain, b), <<"// ">>)
           ELSE <<>>)

\* a scrub_ that leaves the staged postfix in place
scrub_POSTFIX_kept(postfix) == postfix

\* scrub_, the staged modifiers once read
scrub_POSTFIX(postfix) == <<>>

scrub_EXTRAINDENT(extraIndent) == <<>>

\* a scrub_ that returns early for a block without code
scrub_result_dropsNext(commentCode, blockCode, nextCode, postFix, extraIndent) ==
  IF blockCode = <<>> THEN <<>>
  ELSE commentCode \o blockCode \o nextCode \o postFix

\* scrub_, the string returned
scrub_result(commentCode, blockCode, nextCode, postFix, extraIndent) ==
  commentCode \o blockCode
  \o (IF extraIndent # <<>> THEN prefixLines(nextCode, extraIndent) ELSE nextCode)
  \o postFix

Frame(b) ==
  [block |-> b, phase |-> "generator", value |-> <<>>, nextCode |-> <<>>,
   postFix |-> <<>>, extraIndent |-> <<>>]

Top == stack[Len(stack)]

SetTop(f) == [stack EXCEPT ![Len(stack)] = f]

StagedPostfixes == {<<>>, <<"}", NL>>}
StagedIndents == {<<>>, <<"  ">>}

InitChain ==
  /\ NoTimer
  /\ InitEmit
  /\ ExtraImports_ = <<>>
  /\ variableTypes_ = EmptyDict
  /\ blocklyTypes_ = EmptyDict
  /\ POSTFIX = <<>>
  /\ EXTRAINDENT = <<>>
  /\ stack = <<>>
  /\ graph \in Chains
  /\ hist = <<>>

\* a generator stages the modifiers and calls blockToCode on the top block
CallerEmit(postfix, extraIndent) ==
  /\ pc = "emit"
  /\ POSTFIX' = postfix
  /\ EXTRAINDENT' = extraIndent
  /\ stack' = <<Frame(1)>>
  /\ pc' = "walk"
  /\ UNCHANGED <<timerVars, genVars, root, code, ret, thrown, log, graph, hist>>

\* the generator of the block calls valueToCode on its value input
ValueToCode ==
  /\ pc = "walk"
  /\ Top.phase = "generator"
  /\ hasValueInput(graph, Top.block)
  /\ stack' = Append(SetTop([Top EXCEPT !.phase = "valueToCode"]), Frame(-Top.block))
  /\ UNCHANGED <<timerVars, genVars, runVars, POSTFIX, EXTRAINDENT, graph, hist>>

\* the generator returns and scrub_ runs up to its call of blockToCode
ScrubHead ==
  /\ pc = "walk"
  /\ \/ Top.phase = "generator" /\ ~hasValueInput(graph, Top.block)
     \/ Top.phase = "gotValue"
  /\ POSTFIX' = scrub_POSTFIX(POSTFIX)
  /\ EXTRAINDENT' = scrub_EXTRAINDENT(EXTRAINDENT)
  /\ hist' = Append(hist, [block |-> Top.block, postFix |-> POSTFIX,
                           extraIndent |-> EXTRAINDENT])
  /\ stack' =
       IF nextBlock(graph, Top.block) # 0
       THEN Append(SetTop([Top EXCEPT !.phase = "blockToCode",
                                      !.postFix = POSTFIX,
                                      !.extraIndent = EXTRAINDENT]),
                   Frame(nextBlock(graph, Top.block)))
       ELSE SetTop([Top EXCEPT !.phase = "return",
                               !.postFix = POSTFIX,
                               !.extraIndent = EXTRAINDENT])
  /\ UNCHANGED <<timerVars, genVars, runVars, graph>>

\* what the blockToCode call of the top frame returns
Returned ==
  scrub_result(scrub_commentCode(graph, Top.block),
               ownCode(graph, Top.block, Top.value),
               Top.nextCode, Top.postFix, Top.extraIndent)

\* scrub_ returns, and with it blockToCode, to whoever called
ScrubReturn ==
  /\ pc = "walk"
  /\ Top.phase = "return"
  /\ IF Len(stack) = 1
     THEN /\ ret' = Returned
          /\ pc' = "walked"
          /\ stack' = <<>>
     ELSE /\ stack' =
               LET below == stack[Len(stack) - 1]
                   rest == SubSeq(stack, 1, Len(stack) - 2)
               IN  IF below.phase = "valueToCode"
                   THEN Append(rest, [below EXCEPT !.phase = "gotValue",
                                                   !.value = Returned])
                   ELSE Append(rest, [below EXCEPT !.phase = "return",
                                                   !.nextCode = Returned])
          /\ UNCHANGED <<ret, pc>>
  /\ UNCHANGED <<timerVars, genVars, root, code, thrown, log, POSTFIX, EXTRAINDENT,
                 graph, hist>>

NextWalk ==
  \/ \E postfix \in StagedPostfixes, extraIndent \in StagedIndents :
       CallerEmit(postfix, extraIndent)
  \/ ValueToCode
  \/ ScrubHead
  \/ ScrubReturn

SpecWalk == InitChain /\ [][NextWalk]_vars

\* nothing was staged when the walk began
NothingStaged == \A k \in 1..Len(hist) : hist[k].postFix = <<>> /\ hist[k].extraIndent = <<>>

\* the statements of the chain that have code, in chain order
ChainMarks ==
  LET all == [i \in 1..Len(graph) |-> IF graph[i] = "empty" THEN "" ELSE StmtMark[i]]
  IN  SelectSeq(all, LAMBDA m : m # "")

\* C8: the text emitted for a chain holds the code of each statement block
\* in chain order, a block with empty code still yields the code of its
\* successors, and with nothing staged the text is exactly each block's
\* comments and code followed at once by those of its successor.
C8_ChainInOrder ==
  pc = "walked" =>
    /\ SelectSeq(ret, LAMBDA x : x \in Range(StmtMark)) = ChainMarks
    /\ NothingStaged =>
         ret = Concat([i \in 1..Len(graph) |->
                         scrub_commentCode(graph, i)
                         \o ownCode(graph, i, <<ValueMark[i]>>)])

\* C8 witness: a chain of three whose middle block has no code was walked
C8_Witness ==
  /\ pc = "walked" /\ Len(graph) >= 3 /\ NothingStaged
  /\ graph[1] # "empty" /\ graph[2] = "empty" /\ graph[3] # "empty"

\* C9: once a scrub_ call has read the modifiers both are empty, so they are
\* empty whenever a scrub_ call has recursed into the next block or has
\* returned; a staged value is read non-empty by at most one scrub_ call.
C9_SingleUse ==
  /\ \A k \in 1..Len(stack) :
       stack[k].phase \in {"blockToCode", "gotValue", "return"}
         => POSTFIX = <<>> /\ EXTRAINDENT = <<>>
  /\ pc = "walked" => POSTFIX = <<>> /\ EXTRAINDENT = <<>>
  /\ Cardinality({k \in 1..Len(hist) : hist[k].postFix # <<>>}) <= 1
  /\ Cardinality({k \in 1..Len(hist) : hist[k].extraIndent # <<>>}) <= 1

\* C9 witness: a walk of three scrub_ calls or more has ended, a postfix and
\* an indentation having been staged for it
C9_Witness ==
  /\ pc = "walked" /\ Len(hist) >= 3
  /\ \E k \in 1..Len(hist) : hist[k].postFix # <<>> /\ hist[k].extraIndent # <<>>

\* C10: the modifiers staged before blockToCode(block 1) are read by the
\* scrub_ call of block 1 only, and the code of the block on a value input
\* is what its generator returned.
C10_OnlyStagedBlock ==
  /\ \A k \in 1..Len(hist) :
       (hist[k].postFix # <<>> \/ hist[k].extraIndent # <<>>) => hist[k].block = 1
  /\ \A k \in 1..Len(stack) :
       stack[k].phase = "gotValue" => stack[k].value = <<ValueMark[stack[k].block]>>

----------------------------------------------------------------------------
(* The comments scrub_ collects for one block (specification SpecComments): *)
(* the block has a comment or none, is inline or not, and has inputs of    *)
(* any type with or without a block connected.                             *)

\* block.getCommentText(): nothing, one line, or two lines
CommentTexts == {<<>>, <<"do X">>, <<"do X", NL, "then Y">>}

\* what allNestedComments returns for the block connected to an input
NestedComments(child) ==
  CASE child = "commented" -> <<"helper note", NL>>
    [] child = "commentedDeep" -> <<"outer note", NL, "inner note", NL>>
    [] OTHER -> <<>>

\* an input of a block: its type and the block connected to it
Inputs ==
  [type : {"value", "statement"},
   child : {"none", "plain", "commented", "commentedDeep"}]
  \cup {[type |-> "dummy", child |-> "none"]}

CommentBlocks ==
  [inline : BOOLEAN,
   comment : CommentTexts,
   inputList : UNION {[1..n -> Inputs] : n \in 0..MaxInputs}]

\* the comments of the value arguments, inputs i.. of the list
RECURSIVE scrub_valueComments(_, _)
scrub_valueComments(inputList, i) ==
  IF i > Len(inputList) THEN <<>>
  ELSE (IF inputList[i].type = "value" /\ inputList[i].child # "none"
           /\ NestedComments(inputList[i].child) # <<>>
        THEN prefixLines(NestedComments(inputList[i].child), <<"// ">>)
        ELSE <<>>)
       \o scrub_valueComments(inputList, i + 1)

\* a scrub_ that collects the comments of inline blocks too
scrub_comments_inlineToo(block) ==
  (IF block.comment # <<>>
   THEN prefixLines(block.comment, <<"// ">>) \o <<NL>> ELSE <<>>)
  \o scrub_valueComments(block.inputList, 1)

\* scrub_, the variable commentCode
scrub_comments(block) ==
  IF ~block.inline
  THEN (IF block.comment # <<>>
        THEN prefixLines(block.comment, <<"// ">>) \o <<NL>> ELSE <<>>)
       \o scrub_valueComments(block.inputList, 1)
  ELSE <<>>

BlockCode == <<"doX", "(", ")", ";", NL>>

InitComments ==
  /\ NoTimer
  /\ InitEmit
  /\ ExtraImports_ = <<>>
  /\ variableTypes_ = EmptyDict
  /\ blocklyTypes_ = EmptyDict
  /\ POSTFIX = <<>>
  /\ EXTRAINDENT = <<>>
  /\ stack = <<>>
  /\ graph \in CommentBlocks
  /\ hist = <<>>

\* scrub_(block, code) for a block with nothing after it
ScrubBlock ==
  /\ pc = "emit"
  /\ ret' = scrub_result(scrub_comments(graph), BlockCode, <<>>, POSTFIX, EXTRAINDENT)
  /\ POSTFIX' = scrub_POSTFIX(POSTFIX)
  /\ EXTRAINDENT' = scrub_EXTRAINDENT(EXTRAINDENT)
  /\ pc' = "walked"
  /\ UNCHANGED <<timerVars, genVars, root, code, thrown, log, stack, graph, hist>>

NextComments == ScrubBlock

SpecComments == InitComments /\ [][NextComments]_vars

\* every line of a text, ended by a line break or not, as a '// ' line
CommentLines(text) ==
  LET body  == IF text[Len(text)] = NL THEN SubSeq(text, 1, Len(text) - 1) ELSE text
      lines == Split(body, NL)
  IN  Concat([k \in 1..Len(lines) |-> <<"// ">> \o lines[k] \o <<NL>>])

\* the inputs of the block whose comments are due, in input order
ValueInputsWithComments ==
  Indices(graph.inputList, LAMBDA in : in.type = "value" /\ NestedComments(in.child) # <<>>)

\* C11: the text scrub_ puts before the block's code is empty for a block
\* whose output is connected to a parent; otherwise it is the block's own
\* comment as '// ' lines, then the nested comments of the blocks on its
\* value inputs, in input order, and nothing of its statement inputs.
C11_CommentsBeforeCode ==
  pc = "walked" =>
    ret = (IF graph.inline THEN <<>>
           ELSE (IF graph.comment = <<>> THEN <<>> ELSE CommentLines(graph.comment))
                \o Concat([k \in 1..Len(ValueInputsWithComments) |->
                     CommentLines(NestedComments(
                       graph.inputList[ValueInputsWithComments[k]].child))]))
          \o BlockCode

\* C11 witness: scrub_ has run for a block that is not inline, has a comment
\* and two commented value children with different comments
C11_Witness ==
  /\ pc = "walked" /\ ~graph.inline /\ graph.comment # <<>>
  /\ Len(graph.inputList) = 2
  /\ graph.inputList[1] = [type |-> "value", child |-> "commentedDeep"]
  /\ graph.inputList[2] = [type |-> "value", child |-> "commented"]

----------------------------------------------------------------------------
(* The field declarations of the globals (specification SpecFields): init  *)
(* has resolved the types of the workspace's variables, blocks declare     *)
(* globals with or without an initializer, and finish renders them.        *)

FieldTypes == {<<"Boolean">>, <<"String">>, <<"Var">>, <<"Number">>}

\* Blockly.Variables.allVariablesTypes(workspace): a type for every variable
TypeTables ==
  {[keys |-> VarNames, val |-> types] : types \in [1..Len(VarNames) -> FieldTypes]}

Initializers == {Null, Str(<<>>), Str(<<"5">>)}

InitFields ==
  /\ InitEmit /\ InitWalk
  /\ ExtraImports_ = <<>>
  /\ blocklyTypes_ \in TypeTables
  /\ variableTypes_ = init_variableTypes(EmptyDict, VarNames, blocklyTypes_)

\* a block generator calls setGlobalVar(block, name, val)
SetGlobalVar(name, val) ==
  /\ pc = "emit"
  /\ setGlobalVar(globals_, FALSE, name, val) # globals_
  /\ globals_' = setGlobalVar(globals_, FALSE, name, val)
  /\ UNCHANGED <<timerVars, runVars, walkVars, AppName_, Baseclass_, Interfaces_,
                 ExtraImports_, imports_, classes_, definitions_,
                 functionNames_, variableTypes_, blocklyTypes_, variableDB_>>

NextFields ==
  \/ \E i \in 1..Len(VarNames), val \in Initializers : SetGlobalVar(VarNames[i], val)
  \/ Finish

SpecFields == InitFields /\ [][NextFields]_vars

\* the initializer the declaration of a global is to have
ClaimedInitializer(name) ==
  LET val == Get(globals_, name)
      logical == Get(blocklyTypes_, name)
  IN  IF ~val.nul /\ val.s # <<>> THEN <<" = ">> \o val.s
      ELSE CASE logical = <<"Boolean">> -> <<" = false">>
             [] logical = <<"String">> -> <<" = \"\"">>
             [] logical = <<"Var">> -> <<" = new Var()">>
             [] OTHER -> <<>>

\* C12: every global is declared by finish with its explicit initializer
\* or, lacking one, with the default of its type: false for a boolean, ""
\* for a string, new Var() for a Var.
C12_DefaultByType ==
  pc = "finished" =>
    \A i \in 1..Len(globals_.keys) :
      LET name == globals_.keys[i]
      IN  Occurrences(code,
            <<"protected", SP>> \o GetVariableType(variableTypes_, name)
            \o <<SP, name>> \o ClaimedInitializer(name) \o <<";", NL>>) # {}

----------------------------------------------------------------------------
(* Type resolution as a function (specification SpecTypes): mapType is     *)
(* applied to a colon-delimited type, GetVariableType to a name.           *)

TypeTokens ==
  {"Number", "Array", "Map", "String", "widget", "Var", "Mystery", "constructor"}

\* the types asked for: no type at all, or tokens to be joined by ':'
TokenLists == UNION {[1..n -> TypeTokens] : n \in 0..MaxDepth}

AskedNames == {"x", "y", "toString"}

InitTypes ==
  /\ NoTimer
  /\ InitEmit
  /\ ExtraImports_ = <<>>
  /\ variableTypes_ \in {EmptyDict, Put(EmptyDict, "x", <<"String">>)}
  /\ blocklyTypes_ = EmptyDict
  /\ POSTFIX = <<>>
  /\ EXTRAINDENT = <<>>
  /\ stack = <<>>
  /\ graph \in TokenLists
  /\ hist = <<>>

\* mapType(type), type being the tokens joined by ':'
MapType ==
  /\ pc = "emit"
  /\ ret' = mapType(Join([i \in 1..Len(graph) |-> <<graph[i]>>], <<":">>))
  /\ pc' = "mapped"
  /\ UNCHANGED <<timerVars, genVars, root, code, thrown, log, walkVars>>

\* GetVariableType(name)
GetVariableTypeOf(name) ==
  /\ pc = "emit"
  /\ ret' = GetVariableType(variableTypes_, name)
  /\ hist' = <<name>>
  /\ pc' = "looked"
  /\ UNCHANGED <<timerVars, genVars, root, code, thrown, log, POSTFIX, EXTRAINDENT,
                 stack, graph>>

NextTypes ==
  \/ MapType
  \/ \E name \in AskedNames : GetVariableTypeOf(name)

SpecTypes == InitTypes /\ [][NextTypes]_vars

\* M(t1)<S(t2)<...<S(tn)>...>>
Generic(tokens) ==
  Concat([i \in 1..Len(tokens) |->
            <<(IF i = 1 THEN typeMapping ELSE subtypeMapping)[tokens[i]]>>
            \o (IF i < Len(tokens) THEN <<"<">> ELSE <<>>)])
  \o [i \in 1..(Len(tokens) - 1) |-> ">"]

\* C13: for a colon-delimited type whose tokens are in the tables, mapType
\* returns the outermost token mapped with typeMapping, wrapping the inner
\* tokens mapped with subtypeMapping as nested generic parameters.
C13_NestedGeneric ==
  (pc = "mapped" /\ graph # <<>> /\ Range(graph) \subseteq DOMAIN typeMapping)
    => ret = Generic(graph)

\* C13 witness: mapType has mapped a type of three tokens with Number in
\* the outermost and in the innermost position
C13_Witness ==
  /\ pc = "mapped"
  /\ graph = <<"Number", "Map", "Number">>
  /\ ret[1] = "double" /\ ret[5] = "Double"

\* t is in no mapping table, no block class and no type-equivalence key
UnknownToken(t) ==
  t \notin (DOMAIN typeMapping \cup DOMAIN subtypeMapping
            \cup DOMAIN GBPClass \cup VariableTypeEquivalence)

\* C14: mapType gives 'Object' for no type at all and for every unknown
\* token, inner ones too, and GetVariableType gives 'Object' for every name
\* without a recorded type.
C14_ObjectFallback ==
  /\ pc = "mapped" =>
       /\ graph = <<>> => ret = <<"Object">>
       /\ \A i \in 1..Len(graph) : UnknownToken(graph[i]) => ret[2 * i - 1] = "Object"
  /\ pc = "looked" =>
       (~Has(variableTypes_, hist[1]) => ret = <<"Object">>)

----------------------------------------------------------------------------
(* Configuration and one run (specification SpecConfig): the embedding     *)
(* page sets the base class and supplies extra classes, then calls         *)
(* workspaceToCode once.  hist records what was configured.                *)

BaseclassChoices == {"", "Base"}

ExtraClassChoices ==
  { <<"Extra", << <<"class Extra {">>, <<"}">> >> >>,
    <<"Other", << <<"class Other { }">> >> >> }

ConfigRoots ==
  {r \in Workspaces : r.onchange = 0 /\ r.appTitle = "App" /\ r.vars = NoVars}

\* setBaseclass(baseclass) before the run
ConfigBaseclass(baseclass) ==
  /\ pc = "idle"
  /\ Len(hist) < MaxCalls
  /\ Baseclass_' = baseclass
  /\ hist' = Append(hist, [set |-> "baseclass", name |-> baseclass, text |-> <<>>])
  /\ UNCHANGED <<timerVars, runVars, POSTFIX, EXTRAINDENT, stack, graph, AppName_,
                 Interfaces_, ExtraImports_, imports_, classes_, globals_,
                 definitions_, functionNames_, variableTypes_, blocklyTypes_,
                 variableDB_>>

\* setExtraClass(name, code) before the run
ConfigExtraClass(name, lines) ==
  /\ pc = "idle"
  /\ Len(hist) < MaxCalls
  /\ classes_' = setExtraClass(classes_, name, lines)
  /\ hist' = Append(hist, [set |-> "class", name |-> name,
                           text |-> Join(lines, <<NL>>) \o <<NL>>])
  /\ UNCHANGED <<timerVars, runVars, POSTFIX, EXTRAINDENT, stack, graph, AppName_,
                 Baseclass_, Interfaces_, ExtraImports_, imports_, globals_,
                 definitions_, functionNames_, variableTypes_, blocklyTypes_,
                 variableDB_>>

NextConfig ==
  \/ \E b \in BaseclassChoices : ConfigBaseclass(b)
  \/ \E c \in ExtraClassChoices : ConfigExtraClass(c[1], c[2])
  \/ \E r \in ConfigRoots : WorkspaceToCode(r)
  \/ ForceUpdate
  \/ InitStep
  \/ \E h \in BOOLEAN : Body(h)
  \/ FinishStep
  \/ AddImportsStep
  \/ AssembleStep

SpecConfig == Init /\ [][NextConfig]_vars

ConfiguredClasses == Indices(hist, LAMBDA c : c.set = "class")

\* the base class configured last, '' when none was
ConfiguredBaseclass ==
  LET at == Indices(hist, LAMBDA c : c.set = "baseclass")
  IN  IF at = <<>> THEN "" ELSE hist[at[Len(at)]].name

\* C15: the text of every extra class supplied before the run is in the
\* text the run returns.
C15_ExtraClassesEmitted ==
  pc = "done" =>
    \A k \in 1..Len(ConfiguredClasses) :
      Occurrences(ret, hist[ConfiguredClasses[k]].text) # {}

\* C16: the text the run returns has an extends clause exactly when a
\* base class other than '' was configured, and the clause names it.
C16_ExtendsIffConfigured ==
  pc = "done" =>
    IF ConfiguredBaseclass # ""
    THEN Occurrences(ret, <<" extends ", ConfiguredBaseclass>>) # {}
    ELSE ~Contains(ret, " extends ")

----------------------------------------------------------------------------
(* toStringCode as a function (specification SpecToString): one call for a *)
(* value input with no block, a variables_get block or another block, the  *)
(* helper registered by an earlier call of the run or not.                 *)

VariableGet == [connected |-> TRUE, type |-> "variables_get", var |-> "v"]

NotConnected == [connected |-> FALSE, type |-> "", var |-> ""]

\* the code valueToCode returns for a block that is not a variables_get
ValueCodes ==
  { <<>>, <<"\"", "hi", "\"">>, <<SP, "\"", "hi", "\"">>, <<"42">>, <<"-3.5">>,
    <<SP, "42", SP>>, <<"v">>, <<"a + b">>, <<"f()">> }

\* the value inputs: the block connected and the code valueToCode returns
ValueInputs ==
  {[target |-> NotConnected, item |-> <<>>]}
  \cup {[target |-> VariableGet, item |-> i] : i \in {<<"v">>, <<SP, "v">>}}
  \cup {[target |-> OtherTarget, item |-> i] : i \in ValueCodes}

VariableTypeTables ==
  {EmptyDict, Put(EmptyDict, "v", <<"Var">>), Put(EmptyDict, "v", <<"String">>)}

InitToString ==
  /\ NoTimer
  /\ AppName_ = "myApp"
  /\ Baseclass_ = ""
  /\ Interfaces_ = <<>>
  /\ ExtraImports_ = <<>>
  /\ classes_ = EmptyDict
  /\ globals_ = EmptyDict
  /\ blocklyTypes_ = EmptyDict
  /\ variableTypes_ \in VariableTypeTables
  /\ \E named, registered \in BOOLEAN :
       LET names == IF named
                    THEN Names_afterGetName(Names_reset, "blocklyToString", "VARIABLE")
                    ELSE Names_reset
           first == <<"a + b">>
       IN  IF registered
           THEN /\ imports_ = toStringCode_imports(OtherTarget, first, EmptyDict, EmptyDict)
                /\ definitions_ = toStringCode_defs(OtherTarget, first, EmptyDict, EmptyDict)
                /\ functionNames_ =
                     toStringCode_fnames(OtherTarget, first, EmptyDict, EmptyDict,
                                         EmptyDict, names)
                /\ variableDB_ =
                     toStringCode_names(OtherTarget, first, EmptyDict, EmptyDict, names)
           ELSE /\ imports_ = EmptyDict
                /\ definitions_ = EmptyDict
                /\ functionNames_ = EmptyDict
                /\ variableDB_ = names
  /\ pc = "emit"
  /\ root = NoRoot
  /\ code = <<>>
  /\ ret = <<"none">>
  /\ thrown = ""
  /\ log = <<>>
  /\ POSTFIX = <<>>
  /\ EXTRAINDENT = <<>>
  /\ stack = <<>>
  /\ graph \in ValueInputs
  /\ hist = <<>>

\* toStringCode(block, name) for the value input
ToStringCodeOf ==
  /\ pc = "emit"
  /\ ret' = toStringCode(graph.target, graph.item, variableTypes_, definitions_,
                         functionNames_, variableDB_)
  /\ imports_' = toStringCode_imports(graph.target, graph.item, variableTypes_, imports_)
  /\ definitions_' =
       toStringCode_defs(graph.target, graph.item, variableTypes_, definitions_)
  /\ functionNames_' =
       toStringCode_fnames(graph.target, graph.item, variableTypes_, definitions_,
                           functionNames_, variableDB_)
  /\ variableDB_' =
       toStringCode_names(graph.target, graph.item, variableTypes_, definitions_,
                          variableDB_)
  /\ pc' = "converted"
  /\ UNCHANGED <<timerVars, root, code, thrown, log, walkVars, AppName_, Baseclass_,
                 Interfaces_, ExtraImports_, classes_, globals_,
                 variableTypes_, blocklyTypes_>>

NextToString == ToStringCodeOf

SpecToString == InitToString /\ [][NextToString]_vars

\* the code of the child, surrounding white space removed
ChildCode == Trim(graph.item)

\* the code is the name of a variable whose resolved type is 'Var'
DenotesVar ==
  /\ Len(ChildCode) = 1
  /\ Has(variableTypes_, ChildCode[1])
  /\ Get(variableTypes_, ChildCode[1]) = <<"Var">>

\* C17: toStringCode returns '' for a value input without a block, the
\* child's code as it is when that is empty or starts with a double quote,
\* the code in double quotes when it is a numeric literal, the code followed
\* by '.toString()' when it is a variable of type Var, and otherwise a call
\* of the registered blocklyToString helper on the code.
C17_ToStringCases ==
  pc = "converted" =>
    ret = (IF ~graph.target.connected THEN <<>>
           ELSE IF ChildCode = <<>> \/ ChildCode[1] = "\"" THEN ChildCode
           ELSE IF Len(ChildCode) = 1 /\ ChildCode[1] \in NumberLiterals
                THEN <<"\"">> \o ChildCode \o <<"\"">>
           ELSE IF DenotesVar THEN ChildCode \o <<".toString()">>
           ELSE Get(functionNames_, "blocklyToString") \o <<"(">>
                \o ChildCode \o <<")">>)

\* C17 witness: a numeric literal was quoted while a variable of type Var
\* exists, the helper being registered already
C17_Witness ==
  /\ pc = "converted"
  /\ graph.item = <<SP, "42", SP>> /\ ret = <<"\"", "42", "\"">>
  /\ variableTypes_ # EmptyDict
  /\ Has(definitions_, "blocklyToString")

----------------------------------------------------------------------------
(* Blockly.utils.Timer (specification SpecTimer): one Timer, the timer     *)
(* object (window) that holds the pending timeouts, and the clock.  start, *)
(* stop and setInterval are called by the page or by a TICK listener, a    *)
(* pending timeout fires when the timer object decides, early or late.     *)

MAX_TIMEOUT_ == 2147483647

INVALID_TIMEOUT_ID_ == -1

\* the Timer and the timer object as one value
This ==
  [enabled |-> enabled, timer_ |-> timer_, interval_ |-> interval_,
   last_ |-> last_, timeouts |-> timeouts]

\* timerObject_.setTimeout returns an id no pending timeout has; the
\* smallest one that is not the id the Timer still holds
FreshId(t) ==
  CHOOSE n \in 1..(Cardinality(t.timeouts) + 2) :
    /\ n # t.timer_
    /\ \A p \in t.timeouts : p.id # n
    /\ \A m \in 1..(n - 1) : m = t.timer_ \/ \E p \in t.timeouts : p.id = m

setTimeout(t, fn, delay) ==
  t.timeouts \cup {[id |-> FreshId(t), fn |-> fn, delay |-> delay]}

clearTimeout(t, id) == {p \in t.timeouts : p.id # id}

\* a start that registers a timeout whether or not one is registered
start_unguarded(t, time) ==
  [t EXCEPT !.enabled = TRUE, !.timer_ = FreshId(t),
            !.timeouts = setTimeout(t, "boundTick_", t.interval_),
            !.last_ = time]

\* Timer.prototype.start
start(t, time) ==
  IF t.timer_ = 0
  THEN [t EXCEPT !.enabled = TRUE, !.timer_ = FreshId(t),
                 !.timeouts = setTimeout(t, "boundTick_", t.interval_),
                 !.last_ = time]
  ELSE [t EXCEPT !.enabled = TRUE]

\* Timer.prototype.stop
stop(t) ==
  IF t.timer_ # 0
  THEN [t EXCEPT !.enabled = FALSE, !.timeouts = clearTimeout(t, t.timer_),
                 !.timer_ = 0]
  ELSE [t EXCEPT !.enabled = FALSE]

\* a setInterval that restarts the Timer whether or not it is running
setInterval_alwaysRestarts(t, interval, time) ==
  start(stop([t EXCEPT !.interval_ = interval]), time)

\* Timer.prototype.setInterval
setInterval(t, interval, time) ==
  IF t.timer_ # 0 /\ t.enabled
  THEN start(stop([t EXCEPT !.interval_ = interval]), time)
  ELSE IF t.timer_ # 0 THEN stop([t EXCEPT !.interval_ = interval])
  ELSE [t EXCEPT !.interval_ = interval]

\* tick_: the timeout fired sooner than 0.8 of the interval after last_
tick_early(t, time) ==
  /\ t.enabled
  /\ time - t.last_ > 0
  /\ 10 * (time - t.last_) < 8 * t.interval_

\* tick_ up to dispatchTick, or to its return when it does not dispatch
tick_(t, time) ==
  IF ~t.enabled THEN t
  ELSE IF tick_early(t, time)
  THEN [t EXCEPT !.timer_ = FreshId(t),
                 !.timeouts = setTimeout(t, "boundTick_",
                                         t.interval_ - (time - t.last_))]
  ELSE IF t.timer_ # 0
  THEN [t EXCEPT !.timeouts = clearTimeout(t, t.timer_), !.timer_ = 0]
  ELSE t

\* tick_ after dispatchTick
tick_afterDispatch(t, time) == IF t.enabled THEN start(stop(t), time) ELSE t

Becomes(t) ==
  /\ enabled' = t.enabled
  /\ timer_' = t.timer_
  /\ interval_' = t.interval_
  /\ last_' = t.last_
  /\ timeouts' = t.timeouts

\* what callOnce may be given as listener
Listeners ==
  {"function", "handleEventObject", "handleEventNotFunction", "plainObject",
   "null", "undefined", "string"}

\* a callOnce that takes any object
callOnce_valid_anyObject(listener) ==
  listener \in {"function", "handleEventObject", "handleEventNotFunction", "plainObject"}

\* callOnce: the listener passes the tests of lines 266-275
callOnce_valid(listener) == listener \in {"function", "handleEventObject"}

\* the delays callOnce is given, ms + more milliseconds; 0: none given
Delays ==
  {[ms |-> 0, more |-> 0], [ms |-> 5, more |-> 0],
   [ms |-> MAX_TIMEOUT_, more |-> 0], [ms |-> MAX_TIMEOUT_, more |-> 1]}

\* Number(opt_delay) > Blockly.utils.Timer.MAX_TIMEOUT_
callOnce_tooLong(delay) == (delay.ms - MAX_TIMEOUT_) + delay.more > 0

InitTimerSpec ==
  /\ InitGen /\ InitRun
  /\ POSTFIX = <<>>
  /\ EXTRAINDENT = <<>>
  /\ stack = <<>>
  /\ graph = <<>>
  /\ hist = <<>>
  /\ InitTimer

\* the page or a TICK listener calls start()
Start ==
  /\ Becomes(start(This, now))
  /\ UNCHANGED <<runVars, genVars, walkVars, now, ticking, called>>

\* the page or a TICK listener calls stop()
Stop ==
  /\ Becomes(stop(This))
  /\ UNCHANGED <<runVars, genVars, walkVars, now, ticking, called>>

\* the page or a TICK listener calls setInterval(interval)
SetInterval(interval) ==
  /\ Becomes(setInterval(This, interval, now))
  /\ UNCHANGED <<runVars, genVars, walkVars, now, ticking, called>>

\* the timer object runs boundTick_: tick_ up to dispatchTick
Tick(p) ==
  /\ ticking = "idle"
  /\ p \in timeouts /\ p.fn = "boundTick_"
  /\ Becomes(tick_([This EXCEPT !.timeouts = timeouts \ {p}], now))
  /\ ticking' = IF enabled /\ ~tick_early(This, now) THEN "dispatchTick" ELSE "idle"
  /\ UNCHANGED <<runVars, genVars, walkVars, now, called>>

\* the TICK listeners have returned: the rest of tick_
TickReturn ==
  /\ ticking = "dispatchTick"
  /\ Becomes(tick_afterDispatch(This, now))
  /\ ticking' = "idle"
  /\ UNCHANGED <<runVars, genVars, walkVars, now, called>>

\* Timer.callOnce(listener, opt_delay)
CallOnce(listener, delay) ==
  /\ Cardinality({p \in timeouts : p.fn = "listener"}) < MaxOnce
  /\ IF ~callOnce_valid(listener)
     THEN /\ called' = [listener |-> listener, delay |-> delay,
                        threw |-> "Invalid listener argument", result |-> 0,
                        scheduled |-> FALSE]
          /\ UNCHANGED timeouts
     ELSE IF callOnce_tooLong(delay)
     THEN /\ called' = [listener |-> listener, delay |-> delay, threw |-> "",
                        result |-> INVALID_TIMEOUT_ID_, scheduled |-> FALSE]
          /\ UNCHANGED timeouts
     ELSE /\ called' = [listener |-> listener, delay |-> delay, threw |-> "",
                        result |-> FreshId(This), scheduled |-> TRUE]
          /\ timeouts' = setTimeout(This, "listener", delay.ms)
  /\ UNCHANGED <<runVars, genVars, walkVars, enabled, timer_, interval_,
                 last_, now, ticking>>

\* the timer object runs the listener of a callOnce timeout
RunListener(p) ==
  /\ ticking = "idle"
  /\ p \in timeouts /\ p.fn = "listener"
  /\ timeouts' = timeouts \ {p}
  /\ UNCHANGED <<runVars, genVars, walkVars, enabled, timer_, interval_,
                 last_, now, ticking, called>>

\* a millisecond passes
Advance ==
  /\ now < MaxTime
  /\ now' = now + 1
  /\ UNCHANGED <<runVars, genVars, walkVars, enabled, timer_, interval_,
                 last_, timeouts, ticking, called>>

NextTimer ==
  \/ Start
  \/ Stop
  \/ \E interval \in Intervals : SetInterval(interval)
  \/ \E p \in timeouts : Tick(p)
  \/ TickReturn
  \/ \E listener \in Listeners, delay \in Delays : CallOnce(listener, delay)
  \/ \E p \in timeouts : RunListener(p)
  \/ Advance

SpecTimer == InitTimerSpec /\ [][NextTimer]_vars

\* the listener is a function, or an object with a handleEvent function
IsListener(listener) == listener = "function" \/ listener = "handleEventObject"

\* C18: callOnce throws 'Invalid listener argument' exactly when the
\* listener is neither a function nor an object with a handleEvent
\* function, it throws nothing else, and a call that throws leaves the
\* pending timeouts as they were.
C18_InvalidListener ==
  [][called' # called =>
       /\ called'.threw = "Invalid listener argument" <=> ~IsListener(called'.listener)
       /\ called'.threw \in {"", "Invalid listener argument"}
       /\ called'.threw # "" => timeouts' = timeouts]_vars

\* C18 witness: callOnce has thrown for an object whose handleEvent is not a
\* function while a timeout was pending
C18_Witness ==
  /\ called.listener = "handleEventNotFunction"
  /\ called.threw = "Invalid listener argument"
  /\ timeouts # {}

\* the pending timeouts of the Timer
TimerTimeouts == {p \in timeouts : p.fn = "boundTick_"}

\* C20: at most one timeout of the Timer is pending, and outside tick_ one
\* is pending exactly when the Timer is enabled.
C20_OneTimeout ==
  /\ Cardinality(TimerTimeouts) <= 1
  /\ ticking = "idle" => (enabled <=> TimerTimeouts # {})

\* C20 witness: a TICK listener has called start or setInterval, so that a
\* timeout is pending while tick_ has not returned yet
C20_Witness ==
  /\ ticking = "dispatchTick" /\ enabled /\ TimerTimeouts # {}
  /\ interval_ = 5 /\ now > last_

\* the definitions text of finish: what it returns without the body code
DefinitionsText == SubSeq(code, 1, Len(code) - Len(<<"body", NL>>))

\* C19: the definitions text of finish has no two blank lines in a row, and
\* it ends with exactly one blank line before the body code.
C19_OneBlankLine ==
  pc = "finished" =>
    LET t == DefinitionsText
    IN  /\ \A i \in 1..(Len(t) - 2) : ~(t[i] = NL /\ t[i + 1] = NL /\ t[i + 2] = NL)
        /\ Len(t) >= 2 /\ t[Len(t)] = NL /\ t[Len(t) - 1] = NL

\* C21: a stopped Timer dispatches no TICK until start() is called.  stop()
\* leaves the Timer disabled with no timeout of its own pending, inside a
\* TICK listener too; a disabled Timer becomes enabled by a start() call
\* only, so not by setInterval(), a firing timeout or the return of the
\* listeners; a TICK is dispatched by an enabled Timer only; and when the
\* listeners of a tick return to a Timer they have stopped, tick_
\* registers no timeout.
C21_StoppedUntilStart ==
  [][/\ Stop => ~enabled' /\ TimerTimeouts' = {}
     /\ ~enabled /\ enabled' => Start
     /\ ~enabled => (TimerTimeouts = {} /\ timer_ = 0)
     /\ ticking = "idle" /\ ticking' = "dispatchTick" => enabled
     /\ ~enabled /\ ticking = "dispatchTick" /\ ticking' = "idle"
          => ~enabled' /\ TimerTimeouts' = {}]_vars

\* C21 witness: a TICK listener has stopped the Timer, after the Timer was
\* given another interval and started later than at time 0
C21_Witness ==
  /\ ticking = "dispatchTick" /\ ~enabled /\ TimerTimeouts = {}
  /\ interval_ = 5 /\ last_ > 0 /\ now > last_

====
